---- MODULE Spec2Model ----
(***************************************************************************)
(* Model of the SCAN symbolic causal model                                 *)
(* (experiments/SCAN/causal_model/causal_model_v1_pyvene.py): the lexicon, *)
(* the node functions, the parents table, the command padder of __main__   *)
(* and the forward evaluation of the graph.                                *)
(*                                                                         *)
(* A Python str is a sequence of tokens: a token is a primitive such as    *)
(* "I_WALK", the placeholder "act", a surface word, one marker character   *)
(* ("y", "x") or one blank " ".  No operation of the program splits a      *)
(* token, so concatenation, repetition, strip, replace and len act on      *)
(* these sequences as they act on the characters.                          *)
(***************************************************************************)
EXTENDS Integers, Sequences, FiniteSets, TLC

VARIABLES command, padded_command, index, c, pc,
          causal_model_inputs, intervention, total_setting, setting,
          step, status, call, vals, vpos

vars == <<command, padded_command, index, c, pc,
          causal_model_inputs, intervention, total_setting, setting,
          step, status, call, vals, vpos>>

padVars == <<command, padded_command, index, c>>
enumVars == <<vals, vpos>>
evalVars == <<causal_model_inputs, intervention, total_setting, setting,
              step, status>>

----------------------------------------------------------------------------
(* Lexicon *)

max_len == 9

EMPTY == <<"EMPTY">>

SP == " "

actions ==
  (<<"walk">> :> <<"I_WALK">>) @@ (<<"run">> :> <<"I_RUN">>) @@
  (<<"jump">> :> <<"I_JUMP">>) @@ (<<"look">> :> <<"I_LOOK">>) @@
  (<<"turn">> :> EMPTY) @@ (EMPTY :> EMPTY)

turns ==
  (<<"around">> :> <<"y", "y", "y", "y">>) @@
  (<<"opposite">> :> <<"y", "y">>) @@ (EMPTY :> EMPTY)

directions ==
  (<<"right">> :> <<"I_TURN_RIGHT">>) @@
  (<<"left">> :> <<"I_TURN_LEFT">>) @@ (EMPTY :> EMPTY)

nums ==
  (<<"twice">> :> <<"x", "x">>) @@
  (<<"thrice">> :> <<"x", "x", "x">>) @@ (EMPTY :> EMPTY)

conjs == << <<"and">>, <<"after">>, EMPTY >>

Elems(list) == {list[i] : i \in 1..Len(list)}

\* command_structure with the turn and direction vocabularies of the first
\* clause exchanged
command_structure_Swapped(i) ==
  CASE i = 0 -> DOMAIN actions
    [] i = 1 -> DOMAIN directions
    [] i = 2 -> DOMAIN turns
    [] i = 3 -> DOMAIN nums
    [] i = 4 -> Elems(conjs)
    [] i = 5 -> DOMAIN actions
    [] i = 6 -> DOMAIN turns
    [] i = 7 -> DOMAIN directions
    [] i = 8 -> DOMAIN nums

\* command_structure[i] as the set of words w with `w in command_structure[i]`
\* (the keys of a dict, the elements of the list conjs); positions are 0-based.
command_structure(i) ==
  CASE i = 0 -> DOMAIN actions
    [] i = 1 -> DOMAIN turns
    [] i = 2 -> DOMAIN directions
    [] i = 3 -> DOMAIN nums
    [] i = 4 -> Elems(conjs)
    [] i = 5 -> DOMAIN actions
    [] i = 6 -> DOMAIN turns
    [] i = 7 -> DOMAIN directions
    [] i = 8 -> DOMAIN nums

----------------------------------------------------------------------------
(* Variables of the graph *)

leaves == << "act1", "trn1", "dir1", "num1", "conj",
             "act2", "trn2", "dir2", "num2" >>

non_leaves == << "trn1_res", "trn1_dir1", "act1_trn1_dir1",
                 "num1_res", "act1_trn1_dir1_num1",
                 "trn2_res", "trn2_dir2", "act2_trn2_dir2",
                 "num2_res", "act2_trn2_dir2_num2",
                 "conj_res", "rnode" >>

variables == leaves \o non_leaves

----------------------------------------------------------------------------
(* Python str operations on token sequences *)

\* s * n
RECURSIVE Repeat(_, _)
Repeat(s, n) == IF n <= 0 THEN <<>> ELSE s \o Repeat(s, n - 1)

RECURSIVE LStrip(_)
LStrip(s) == IF s # <<>> /\ Head(s) = SP THEN LStrip(Tail(s)) ELSE s

RECURSIVE RStrip(_)
RStrip(s) ==
  IF s # <<>> /\ s[Len(s)] = SP THEN RStrip(SubSeq(s, 1, Len(s) - 1)) ELSE s

\* s.strip()
Strip(s) == RStrip(LStrip(s))

\* s.replace(old, new), old a single token: every occurrence is replaced
RECURSIVE Replace(_, _, _)
Replace(s, old, new) ==
  IF s = <<>> THEN <<>>
  ELSE (IF Head(s) = old THEN new ELSE <<Head(s)>>) \o Replace(Tail(s), old, new)

\* the outcome of a call that raises (a dict lookup of a missing key, a call
\* with the wrong number of arguments) instead of returning a str
Raised == <<"#raised">>

----------------------------------------------------------------------------
(* Node functions *)

\* resolve_turn with turns.get(turn, EMPTY) in place of turns[turn]
resolve_turn_Default(turn) == IF turn \in DOMAIN turns THEN turns[turn] ELSE EMPTY

resolve_turn(turn) == IF turn \in DOMAIN turns THEN turns[turn] ELSE Raised

\* turn_function repeating "D act " for the 2-repetition marker as it does for
\* the 4-repetition marker
turn_function_SameRepeat(turn, dir) ==
  IF dir \notin DOMAIN directions THEN Raised
  ELSE LET d == directions[dir] IN
    IF d = EMPTY THEN EMPTY
    ELSE IF turn = EMPTY THEN Strip(d \o <<SP, "act", SP>>)
    ELSE Strip(Repeat(d \o <<SP, "act", SP>>, Len(turn)))

turn_function(turn, dir) ==
  IF dir \notin DOMAIN directions THEN Raised
  ELSE LET d == directions[dir] IN
    IF d = EMPTY THEN EMPTY
    ELSE IF turn = EMPTY THEN Strip(d \o <<SP, "act", SP>>)
    ELSE IF turn = <<"y", "y", "y", "y">>
      THEN Strip(Repeat(d \o <<SP, "act", SP>>, Len(turn)))
    ELSE Strip(Repeat(d \o <<SP>>, Len(turn)) \o <<"act">>)

\* s.replace(old, new, 1)
RECURSIVE ReplaceFirst(_, _, _)
ReplaceFirst(s, old, new) ==
  IF s = <<>> THEN <<>>
  ELSE IF Head(s) = old THEN new \o Tail(s)
  ELSE <<Head(s)>> \o ReplaceFirst(Tail(s), old, new)

\* action_function replacing the first placeholder only
action_function_FirstOnly(act, trn_dir) ==
  IF act \notin DOMAIN actions THEN Raised
  ELSE IF trn_dir = EMPTY THEN actions[act]
  ELSE ReplaceFirst(trn_dir, "act", actions[act])

action_function(act, trn_dir) ==
  IF act \notin DOMAIN actions THEN Raised
  ELSE IF trn_dir = EMPTY THEN actions[act]
  ELSE Replace(trn_dir, "act", actions[act])

resolve_num(num) == IF num \in DOMAIN nums THEN nums[num] ELSE Raised

\* num_function without the strip
num_function_NoStrip(act_trn_dir, num) ==
  IF num = EMPTY THEN act_trn_dir
  ELSE Repeat(act_trn_dir \o <<SP>>, Len(num))

num_function(act_trn_dir, num) ==
  IF num = EMPTY THEN act_trn_dir
  ELSE Strip(Repeat(act_trn_dir \o <<SP>>, Len(num)))

\* functions[v]: the name of the callable attached to node v
functions(v) ==
  CASE v \in Elems(leaves) -> "lambda x: x"
    [] v \in {"trn1_res", "trn2_res"} -> "resolve_turn"
    [] v \in {"trn1_dir1", "trn2_dir2"} -> "turn_function"
    [] v \in {"act1_trn1_dir1", "act2_trn2_dir2"} -> "action_function"
    [] v \in {"num1_res", "num2_res"} -> "resolve_num"
    [] v \in {"act1_trn1_dir1_num1", "act2_trn2_dir2_num2"} -> "num_function"
    [] v = "conj_res" -> "lambda x: x"
    [] v = "rnode" -> "lambda x: x"

\* the number of positional parameters of a callable
Arity(f) ==
  CASE f = "lambda x: x" -> 1
    [] f = "resolve_turn" -> 1
    [] f = "resolve_num" -> 1
    [] f = "turn_function" -> 2
    [] f = "action_function" -> 2
    [] f = "num_function" -> 2

\* f(*args) with the lambda of the leaves given a default: lambda x=EMPTY: x
Apply_LeafDefault(f, args) ==
  IF f = "lambda x: x" /\ args = <<>> THEN EMPTY
  ELSE IF Len(args) # Arity(f) THEN Raised
  ELSE CASE f = "lambda x: x" -> args[1]
         [] f = "resolve_turn" -> resolve_turn(args[1])
         [] f = "resolve_num" -> resolve_num(args[1])
         [] f = "turn_function" -> turn_function(args[1], args[2])
         [] f = "action_function" -> action_function(args[1], args[2])
         [] f = "num_function" -> num_function(args[1], args[2])

\* f(*args)
Apply(f, args) ==
  IF Len(args) # Arity(f) THEN Raised
  ELSE CASE f = "lambda x: x" -> args[1]
         [] f = "resolve_turn" -> resolve_turn(args[1])
         [] f = "resolve_num" -> resolve_num(args[1])
         [] f = "turn_function" -> turn_function(args[1], args[2])
         [] f = "action_function" -> action_function(args[1], args[2])
         [] f = "num_function" -> num_function(args[1], args[2])

----------------------------------------------------------------------------
(* Parents *)

\* parents with act1_trn1_dir1 reading the leaf dir1 instead of trn1_dir1
parents_LeafDir(v) ==
  CASE v = "trn1_res" -> <<"trn1">>
    [] v = "trn1_dir1" -> <<"trn1_res", "dir1">>
    [] v = "act1_trn1_dir1" -> <<"act1", "dir1">>
    [] v = "num1_res" -> <<"num1">>
    [] v = "act1_trn1_dir1_num1" -> <<"act1_trn1_dir1", "num1_res">>
    [] v = "trn2_res" -> <<"trn2">>
    [] v = "trn2_dir2" -> <<"trn2_res", "dir2">>
    [] v = "act2_trn2_dir2" -> <<"act2", "trn2_dir2">>
    [] v = "num2_res" -> <<"num2">>
    [] v = "act2_trn2_dir2_num2" -> <<"act2_trn2_dir2", "num2_res">>
    [] OTHER -> <<>>

\* parents with the two parents of trn1_dir1 in the other order
parents_Swapped(v) ==
  CASE v = "trn1_res" -> <<"trn1">>
    [] v = "trn1_dir1" -> <<"dir1", "trn1_res">>
    [] v = "act1_trn1_dir1" -> <<"act1", "trn1_dir1">>
    [] v = "num1_res" -> <<"num1">>
    [] v = "act1_trn1_dir1_num1" -> <<"act1_trn1_dir1", "num1_res">>
    [] v = "trn2_res" -> <<"trn2">>
    [] v = "trn2_dir2" -> <<"trn2_res", "dir2">>
    [] v = "act2_trn2_dir2" -> <<"act2", "trn2_dir2">>
    [] v = "num2_res" -> <<"num2">>
    [] v = "act2_trn2_dir2_num2" -> <<"act2_trn2_dir2", "num2_res">>
    [] OTHER -> <<>>

\* parents with act2_trn2_dir2 reading the action of the first clause
parents_Crossed(v) ==
  CASE v = "trn1_res" -> <<"trn1">>
    [] v = "trn1_dir1" -> <<"trn1_res", "dir1">>
    [] v = "act1_trn1_dir1" -> <<"act1", "trn1_dir1">>
    [] v = "num1_res" -> <<"num1">>
    [] v = "act1_trn1_dir1_num1" -> <<"act1_trn1_dir1", "num1_res">>
    [] v = "trn2_res" -> <<"trn2">>
    [] v = "trn2_dir2" -> <<"trn2_res", "dir2">>
    [] v = "act2_trn2_dir2" -> <<"act1", "trn2_dir2">>
    [] v = "num2_res" -> <<"num2">>
    [] v = "act2_trn2_dir2_num2" -> <<"act2_trn2_dir2", "num2_res">>
    [] OTHER -> <<>>

parents(v) ==
  CASE v = "trn1_res" -> <<"trn1">>
    [] v = "trn1_dir1" -> <<"trn1_res", "dir1">>
    [] v = "act1_trn1_dir1" -> <<"act1", "trn1_dir1">>
    [] v = "num1_res" -> <<"num1">>
    [] v = "act1_trn1_dir1_num1" -> <<"act1_trn1_dir1", "num1_res">>
    [] v = "trn2_res" -> <<"trn2">>
    [] v = "trn2_dir2" -> <<"trn2_res", "dir2">>
    [] v = "act2_trn2_dir2" -> <<"act2", "trn2_dir2">>
    [] v = "num2_res" -> <<"num2">>
    [] v = "act2_trn2_dir2_num2" -> <<"act2_trn2_dir2", "num2_res">>
    [] OTHER -> <<>>

----------------------------------------------------------------------------
(* Value domains, as the sets of the entries of values[v] *)

RECURSIVE values(_)
values(v) ==
  CASE v \in {"act1", "act2"} -> DOMAIN actions
    [] v \in {"trn1", "trn2"} -> DOMAIN turns
    [] v \in {"dir1", "dir2"} -> DOMAIN directions
    [] v \in {"num1", "num2"} -> DOMAIN nums
    [] v = "conj" -> Elems(conjs)
    [] v = "trn1_res" -> {resolve_turn(t) : t \in values("trn1")}
    [] v = "trn2_res" -> values("trn1_res")
    [] v = "trn1_dir1" ->
         {turn_function(tup[1], tup[2]) :
            tup \in values("trn1_res") \X values("dir1")}
    [] v = "trn2_dir2" -> values("trn1_dir1")
    [] v = "act1_trn1_dir1" ->
         {action_function(tup[1], tup[2]) :
            tup \in values("act1") \X values("trn1_dir1")}
    [] v = "act2_trn2_dir2" -> values("act1_trn1_dir1")
    [] v = "num1_res" -> {resolve_num(n) : n \in values("num1")}
    [] v = "num2_res" -> values("num1_res")
    [] v = "act1_trn1_dir1_num1" ->
         {num_function(tup[1], tup[2]) :
            tup \in values("act1_trn1_dir1") \X values("num1_res")}
    [] v = "act2_trn2_dir2_num2" -> values("act1_trn1_dir1_num1")

----------------------------------------------------------------------------
(* The values table, built statement by statement before __main__ runs *)

\* list(d.keys()): the keys in the order the dict literal lists them
action_keys == << <<"walk">>, <<"run">>, <<"jump">>, <<"look">>, <<"turn">>,
                  EMPTY >>
turn_keys == << <<"around">>, <<"opposite">>, EMPTY >>
direction_keys == << <<"right">>, <<"left">>, EMPTY >>
num_keys == << <<"twice">>, <<"thrice">>, EMPTY >>

\* the keys of values in the order of the assignments to them
value_statements ==
  << "act1", "act2", "trn1", "trn2", "dir1", "dir2", "num1", "num2", "conj",
     "trn1_res", "trn2_res", "trn1_dir1", "trn2_dir2",
     "act1_trn1_dir1", "act2_trn2_dir2", "num1_res", "num2_res",
     "act1_trn1_dir1_num1", "act2_trn2_dir2_num2" >>

\* the number of iteration orders of a set the model draws list(set(...)) from
NumOrders == 3

\* the elements of a list without its repetitions, each at its first place
Dedup(s) ==
  LET P == {i \in DOMAIN s : \A j \in 1..(i - 1) : s[j] # s[i]}
      kth(k) == CHOOSE i \in P : Cardinality({j \in P : j <= i}) = k
  IN [k \in 1..Cardinality(P) |-> s[kth(k)]]

Reverse(s) == [i \in 1..Len(s) |-> s[Len(s) + 1 - i]]

Rotate(s, k) ==
  [i \in 1..Len(s) |-> s[((i - 1 + k) % Len(s)) + 1]]

\* list(set(xs)): the elements of xs without duplicates, in an order the
\* language does not fix; ord selects one of NumOrders orders
ListOfSet(xs, ord) ==
  LET base == Dedup(xs) IN
    IF ord = 1 \/ Len(base) = 0 THEN base
    ELSE IF ord = 2 THEN Reverse(base)
    ELSE Rotate(base, ord - 2)

\* list(itertools.product(xs, ys)): the pairs, the last index fastest
Product(xs, ys) ==
  [i \in 1..(Len(xs) * Len(ys)) |->
     <<xs[((i - 1) \div Len(ys)) + 1], ys[((i - 1) % Len(ys)) + 1]>>]

\* [f(x) for x in xs]
MapList(f(_), xs) == [i \in 1..Len(xs) |-> f(xs[i])]

\* the entries of values the assignment to values[v] reads
values_reads(v) ==
  CASE v = "trn1_res" -> {"trn1"}
    [] v = "trn2_res" -> {"trn1_res"}
    [] v = "trn1_dir1" -> {"trn1_res", "dir1"}
    [] v = "trn2_dir2" -> {"trn1_dir1"}
    [] v = "act1_trn1_dir1" -> {"act1", "trn1_dir1"}
    [] v = "act2_trn2_dir2" -> {"act1_trn1_dir1"}
    [] v = "num1_res" -> {"num1"}
    [] v = "num2_res" -> {"num1_res"}
    [] v = "act1_trn1_dir1_num1" -> {"act1_trn1_dir1", "num1_res"}
    [] v = "act2_trn2_dir2_num2" -> {"act1_trn1_dir1_num1"}
    [] OTHER -> {}

\* values_stmt with values["act2_trn2_dir2_num2"] copied from the entry of
\* act2_trn2_dir2
values_stmt_CopyOther(v, vs, ord) ==
  CASE v \in {"act1", "act2"} -> action_keys
    [] v \in {"trn1", "trn2"} -> turn_keys
    [] v \in {"dir1", "dir2"} -> direction_keys
    [] v \in {"num1", "num2"} -> num_keys
    [] v = "conj" -> conjs
    [] v = "trn1_res" -> MapList(resolve_turn, vs["trn1"])
    [] v = "trn2_res" -> vs["trn1_res"]
    [] v = "trn1_dir1" ->
         ListOfSet(MapList(LAMBDA tup : turn_function(tup[1], tup[2]),
                           Product(vs["trn1_res"], vs["dir1"])), ord)
    [] v = "trn2_dir2" -> vs["trn1_dir1"]
    [] v = "act1_trn1_dir1" ->
         ListOfSet(MapList(LAMBDA tup : action_function(tup[1], tup[2]),
                           Product(vs["act1"], vs["trn1_dir1"])), ord)
    [] v = "act2_trn2_dir2" -> vs["act1_trn1_dir1"]
    [] v = "num1_res" -> MapList(resolve_num, vs["num1"])
    [] v = "num2_res" -> vs["num1_res"]
    [] v = "act1_trn1_dir1_num1" ->
         ListOfSet(MapList(LAMBDA tup : num_function(tup[1], tup[2]),
                           Product(vs["act1_trn1_dir1"], vs["num1_res"])), ord)
    [] v = "act2_trn2_dir2_num2" -> vs["act2_trn2_dir2"]

\* the list assigned to values[v], vs being the table so far
values_stmt(v, vs, ord) ==
  CASE v \in {"act1", "act2"} -> action_keys
    [] v \in {"trn1", "trn2"} -> turn_keys
    [] v \in {"dir1", "dir2"} -> direction_keys
    [] v \in {"num1", "num2"} -> num_keys
    [] v = "conj" -> conjs
    [] v = "trn1_res" -> MapList(resolve_turn, vs["trn1"])
    [] v = "trn2_res" -> vs["trn1_res"]
    [] v = "trn1_dir1" ->
         ListOfSet(MapList(LAMBDA tup : turn_function(tup[1], tup[2]),
                           Product(vs["trn1_res"], vs["dir1"])), ord)
    [] v = "trn2_dir2" -> vs["trn1_dir1"]
    [] v = "act1_trn1_dir1" ->
         ListOfSet(MapList(LAMBDA tup : action_function(tup[1], tup[2]),
                           Product(vs["act1"], vs["trn1_dir1"])), ord)
    [] v = "act2_trn2_dir2" -> vs["act1_trn1_dir1"]
    [] v = "num1_res" -> MapList(resolve_num, vs["num1"])
    [] v = "num2_res" -> vs["num1_res"]
    [] v = "act1_trn1_dir1_num1" ->
         ListOfSet(MapList(LAMBDA tup : num_function(tup[1], tup[2]),
                           Product(vs["act1_trn1_dir1"], vs["num1_res"])), ord)
    [] v = "act2_trn2_dir2_num2" -> vs["act1_trn1_dir1_num1"]

\* the table after the first k assignments, every set in its first order
RECURSIVE ValuesAfter(_)
ValuesAfter(k) ==
  IF k = 0 THEN [x \in {} |-> <<>>]
  ELSE LET vs == ValuesAfter(k - 1)
           v == value_statements[k]
       IN vs @@ (v :> values_stmt(v, vs, 1))

BuiltValues == ValuesAfter(Len(value_statements))

----------------------------------------------------------------------------
(* Bounded inputs *)

MaxCmdLen == 4
MaxExtra == 2

SeqsUpTo(S, n) == UNION {[1..k -> S] : k \in 0..n}

\* one word of every class, the sentinel itself and a word of no vocabulary
Words == { <<"walk">>, <<"turn">>, <<"opposite">>, <<"left">>, <<"twice">>,
           <<"after">>, EMPTY, <<"zzz">> }

\* the commands written in __main__
SourceCommands ==
  { << <<"walk">>, <<"opposite">>, <<"left">> >>,
    << <<"walk">>, <<"after">>, <<"run">>, <<"around">>, <<"right">>,
       <<"twice">> >>,
    << <<"run">>, <<"opposite">>, <<"left">>, <<"after">>, <<"walk">>,
       <<"right">> >> }

\* a command filling all nine positions
FullCommand ==
  << <<"walk">>, <<"around">>, <<"left">>, <<"twice">>, <<"and">>,
     <<"run">>, <<"opposite">>, <<"right">>, <<"thrice">> >>

LongCommands ==
  {a \o FullCommand \o b : a \in SeqsUpTo(Words, 1), b \in SeqsUpTo(Words, MaxExtra)}

Commands == SeqsUpTo(Words, MaxCmdLen) \cup SourceCommands \cup LongCommands

Evals == {1, 2}

EmptyMap == [x \in {} |-> <<>>]

Idle == [e \in Evals |-> "idle"]
NoMaps == [e \in Evals |-> EmptyMap]

----------------------------------------------------------------------------
(* The command padder: one iteration of the while loop of __main__ *)

\* the loop body without the vocabulary test
PadStep_NoVocabTest ==
  /\ pc = "pad"
  /\ index < max_len
  /\ IF c < Len(command)
       THEN /\ padded_command' = Append(padded_command, command[c + 1])
            /\ c' = c + 1
       ELSE /\ padded_command' = Append(padded_command, EMPTY)
            /\ c' = c
  /\ index' = index + 1
  /\ UNCHANGED <<command, pc, evalVars, call, enumVars>>

\* the loop body dropping a word that fails the vocabulary test
PadStep_DropWord ==
  /\ pc = "pad"
  /\ index < max_len
  /\ LET expected_cs == command_structure(index) IN
       IF c < Len(command) /\ command[c + 1] \in expected_cs
         THEN /\ padded_command' = Append(padded_command, command[c + 1])
              /\ c' = c + 1
         ELSE /\ padded_command' = Append(padded_command, EMPTY)
              /\ c' = IF c < Len(command) THEN c + 1 ELSE c
  /\ index' = index + 1
  /\ UNCHANGED <<command, pc, evalVars, call, enumVars>>

PadStep ==
  /\ pc = "pad"
  /\ index < max_len
  /\ LET expected_cs == command_structure(index) IN
       IF c < Len(command) /\ command[c + 1] \in expected_cs
         THEN /\ padded_command' = Append(padded_command, command[c + 1])
              /\ c' = c + 1
         ELSE /\ padded_command' = Append(padded_command, EMPTY)
              /\ c' = c
  /\ index' = index + 1
  /\ UNCHANGED <<command, pc, evalVars, call, enumVars>>

\* causal_model_inputs = {leaves[i]: padded_command[i]}, and the call of
\* run_forward on it
\* MakeInputs with one total_setting dict shared by the evaluations
MakeInputs_SharedSetting ==
  /\ pc = "pad"
  /\ ~(index < max_len)
  /\ causal_model_inputs' =
       [causal_model_inputs EXCEPT
          ![1] = [v \in Elems(leaves) |->
                    padded_command[CHOOSE i \in 1..max_len : leaves[i] = v]]]
  /\ intervention' = [intervention EXCEPT ![1] = EmptyMap]
  /\ total_setting' = [e \in Evals |-> EmptyMap]
  /\ step' = [step EXCEPT ![1] = 1]
  /\ status' = [status EXCEPT ![1] = "running"]
  /\ pc' = "forward"
  /\ UNCHANGED <<padVars, setting, call, enumVars>>

MakeInputs ==
  /\ pc = "pad"
  /\ ~(index < max_len)
  /\ causal_model_inputs' =
       [causal_model_inputs EXCEPT
          ![1] = [v \in Elems(leaves) |->
                    padded_command[CHOOSE i \in 1..max_len : leaves[i] = v]]]
  /\ intervention' = [intervention EXCEPT ![1] = EmptyMap]
  /\ total_setting' = [total_setting EXCEPT ![1] = EmptyMap]
  /\ step' = [step EXCEPT ![1] = 1]
  /\ status' = [status EXCEPT ![1] = "running"]
  /\ pc' = "forward"
  /\ UNCHANGED <<padVars, setting, call, enumVars>>

----------------------------------------------------------------------------
(* Forward evaluation: one node per step, in the order of variables *)

IsLeaf(v) == v \in Elems(leaves)

\* the value node v gets from the inputs, the overrides iv and the values ts
\* of the nodes evaluated before it, or Raised
OutcomeOf(inputs, iv, ts, v) ==
  IF v \in DOMAIN iv THEN iv[v]
  ELSE IF IsLeaf(v) /\ v \in DOMAIN inputs THEN inputs[v]
  ELSE IF \E i \in 1..Len(parents(v)) : parents(v)[i] \notin DOMAIN ts
    THEN Raised
  ELSE Apply(functions(v), [i \in 1..Len(parents(v)) |-> ts[parents(v)[i]]])

\* the value node v gets in evaluation e, or Raised
Outcome(e, v) ==
  OutcomeOf(causal_model_inputs[e], intervention[e], total_setting[e], v)

EvalNode(e) ==
  /\ status[e] = "running"
  /\ LET v == variables[step[e]]
         val == Outcome(e, v)
         ts == total_setting[e] @@ (v :> val)
     IN /\ val # Raised
        /\ total_setting' = [total_setting EXCEPT ![e] = ts]
        /\ IF step[e] = Len(variables)
             THEN /\ status' = [status EXCEPT ![e] = "done"]
                  /\ setting' = [setting EXCEPT ![e] = ts]
                  /\ step' = step
             ELSE /\ step' = [step EXCEPT ![e] = step[e] + 1]
                  /\ UNCHANGED <<status, setting>>
  /\ UNCHANGED <<padVars, pc, causal_model_inputs, intervention, call,
                 enumVars>>

\* the call of the node's function raises: the evaluation ends with no Setting
EvalRaise(e) ==
  /\ status[e] = "running"
  /\ Outcome(e, variables[step[e]]) = Raised
  /\ status' = [status EXCEPT ![e] = "error"]
  /\ total_setting' = [total_setting EXCEPT ![e] = EmptyMap]
  /\ UNCHANGED <<padVars, pc, causal_model_inputs, intervention, setting,
                 step, call, enumVars>>

Finished(e) == status[e] \in {"done", "error"}

----------------------------------------------------------------------------
(* The program: pad the command, then evaluate it *)

NoCall == [fn |-> "none", args |-> <<>>, ret |-> <<>>]

Init ==
  /\ command \in Commands
  /\ padded_command = <<>>
  /\ index = 0
  /\ c = 0
  /\ pc = "pad"
  /\ causal_model_inputs = NoMaps
  /\ intervention = NoMaps
  /\ total_setting = NoMaps
  /\ setting = NoMaps
  /\ step = [e \in Evals |-> 0]
  /\ status = Idle
  /\ call = NoCall
  /\ vals = BuiltValues
  /\ vpos = Len(value_statements) + 1

Next ==
  \/ PadStep
  \/ MakeInputs
  \/ EvalNode(1)
  \/ EvalRaise(1)

Spec == Init /\ [][Next]_vars

----------------------------------------------------------------------------
(* Forward evaluation called twice as a library, on leaf assignments and     *)
(* interventions drawn from bounded sets: the second call starts when the    *)
(* first one has ended.                                                      *)

Assignment(a1, t1, d1, n1, cj, a2, t2, d2, n2) ==
  ("act1" :> a1) @@ ("trn1" :> t1) @@ ("dir1" :> d1) @@ ("num1" :> n1) @@
  ("conj" :> cj) @@
  ("act2" :> a2) @@ ("trn2" :> t2) @@ ("dir2" :> d2) @@ ("num2" :> n2)

\* valid leaf assignments: every value of the left clause's turn and direction,
\* two actions and two numbers, and two right clauses
LeafAssignments ==
  {Assignment(a1, t1, d1, n1, r[1], r[2], r[3], r[4], r[5]) :
     a1 \in {<<"run">>, <<"turn">>}, t1 \in values("trn1"),
     d1 \in values("dir1"), n1 \in {<<"twice">>, EMPTY},
     r \in { << <<"after">>, <<"walk">>, EMPTY, <<"right">>, EMPTY >>,
             << EMPTY, EMPTY, EMPTY, EMPTY, EMPTY >> }}

\* the leaf assignments that differ from L at most in trn1 and dir1
Variants(L) ==
  {[L EXCEPT !["trn1"] = t1, !["dir1"] = d1] :
     t1 \in values("trn1"), d1 \in values("dir1")}

RootOverride ==
  ("conj_res" :> <<"after">>) @@ ("rnode" :> <<"I_TURN_RIGHT", SP, "I_WALK">>)

Interventions ==
  { EmptyMap,
    RootOverride,
    ("trn1_dir1" :> <<"I_TURN_RIGHT", SP, "act">>),
    ("trn1_dir1" :> <<"I_TURN_RIGHT", SP, "act">>) @@ RootOverride,
    ("trn1_dir1" :> EMPTY) @@ RootOverride }

InitEval ==
  /\ command = <<>>
  /\ padded_command = <<>>
  /\ index = 0
  /\ c = 0
  /\ pc = "lib"
  /\ \E L \in LeafAssignments, iv \in Interventions :
       /\ \E L2 \in Variants(L) : causal_model_inputs = (1 :> L) @@ (2 :> L2)
       /\ intervention = [e \in Evals |-> iv]
  /\ total_setting = NoMaps
  /\ setting = NoMaps
  /\ step = [e \in Evals |-> 1]
  /\ status = [e \in Evals |-> "running"]
  /\ call = NoCall
  /\ vals = BuiltValues
  /\ vpos = Len(value_statements) + 1

Turn(e) == \A d \in Evals : d < e => Finished(d)

NextEval ==
  \/ \E e \in Evals : Turn(e) /\ EvalNode(e)
  \/ \E e \in Evals : Turn(e) /\ EvalRaise(e)

SpecEval == InitEval /\ [][NextEval]_vars

----------------------------------------------------------------------------
(* Forward evaluation of leaf assignments that may omit a leaf *)

Restrict(f, S) == [x \in S |-> f[x]]

\* two valid leaf assignments, complete or with one leaf left out
PartialAssignments ==
  {Restrict(L, Elems(leaves) \ D) :
     L \in {Assignment(<<"run">>, <<"opposite">>, <<"left">>, EMPTY,
                       <<"after">>, <<"walk">>, EMPTY, <<"right">>, EMPTY),
            Assignment(<<"jump">>, EMPTY, EMPTY, <<"twice">>,
                       EMPTY, EMPTY, EMPTY, EMPTY, EMPTY)},
     D \in {{}} \cup {{l} : l \in Elems(leaves)}}

PartialInterventions ==
  { EmptyMap,
    RootOverride,
    ("num2" :> EMPTY) @@ RootOverride }

InitPartial ==
  /\ command = <<>>
  /\ padded_command = <<>>
  /\ index = 0
  /\ c = 0
  /\ pc = "lib"
  /\ \E L \in PartialAssignments, iv \in PartialInterventions :
       /\ causal_model_inputs = (1 :> L) @@ (2 :> EmptyMap)
       /\ intervention = (1 :> iv) @@ (2 :> EmptyMap)
  /\ total_setting = NoMaps
  /\ setting = NoMaps
  /\ step = (1 :> 1) @@ (2 :> 0)
  /\ status = (1 :> "running") @@ (2 :> "idle")
  /\ call = NoCall
  /\ vals = BuiltValues
  /\ vpos = Len(value_statements) + 1

NextPartial ==
  \/ EvalNode(1)
  \/ EvalRaise(1)

SpecPartial == InitPartial /\ [][NextPartial]_vars

----------------------------------------------------------------------------
(* The program padding and evaluating its command while a second evaluation, *)
(* of another command's leaf assignment, runs on the same graph: the steps   *)
(* of the two interleave in any order.                                       *)

ConcCommands ==
  { << <<"run">>, <<"opposite">>, <<"left">>, <<"after">>, <<"walk">>,
       <<"right">> >>,
    << <<"turn">>, <<"left">> >>,
    << <<"zzz">> >> }

\* the padded "jump around right thrice" and the padded "look twice and walk"
ConcAssignments ==
  { Assignment(<<"jump">>, <<"around">>, <<"right">>, <<"thrice">>,
               EMPTY, EMPTY, EMPTY, EMPTY, EMPTY),
    Assignment(<<"look">>, EMPTY, EMPTY, <<"twice">>,
               <<"and">>, <<"walk">>, EMPTY, EMPTY, EMPTY) }

InitConc ==
  /\ command \in ConcCommands
  /\ padded_command = <<>>
  /\ index = 0
  /\ c = 0
  /\ pc = "pad"
  /\ \E L \in ConcAssignments, iv \in {EmptyMap, RootOverride} :
       /\ causal_model_inputs = (1 :> EmptyMap) @@ (2 :> L)
       /\ intervention = (1 :> EmptyMap) @@ (2 :> iv)
  /\ total_setting = NoMaps
  /\ setting = NoMaps
  /\ step = (1 :> 0) @@ (2 :> 1)
  /\ status = (1 :> "idle") @@ (2 :> "running")
  /\ call = NoCall
  /\ vals = BuiltValues
  /\ vpos = Len(value_statements) + 1

NextConc ==
  \/ PadStep
  \/ MakeInputs
  \/ \E e \in Evals : EvalNode(e)
  \/ \E e \in Evals : EvalRaise(e)

SpecConc == InitConc /\ [][NextConc]_vars

----------------------------------------------------------------------------
(* Two forward evaluations side by side, on leaf assignments whose clauses   *)
(* are drawn from the same clause values and with overrides in either        *)
(* clause: the steps of the two interleave.                                  *)

\* the four leaf values of a clause: action, turn, direction, number
ClauseValues ==
  { << <<"run">>, <<"opposite">>, <<"left">>, <<"twice">> >>,
    << <<"walk">>, EMPTY, <<"right">>, EMPTY >> }

ClauseAssignments ==
  {Assignment(l[1], l[2], l[3], l[4], <<"after">>, r[1], r[2], r[3], r[4]) :
     l \in ClauseValues, r \in ClauseValues}

ClauseInterventions ==
  { EmptyMap,
    ("trn1_dir1" :> <<"I_TURN_RIGHT", SP, "act">>),
    ("act2_trn2_dir2" :> <<"I_JUMP">>) }

InitClauses ==
  /\ command = <<>>
  /\ padded_command = <<>>
  /\ index = 0
  /\ c = 0
  /\ pc = "lib"
  /\ \E L1 \in ClauseAssignments, L2 \in ClauseAssignments :
       causal_model_inputs = (1 :> L1) @@ (2 :> L2)
  /\ \E iv1 \in ClauseInterventions, iv2 \in ClauseInterventions :
       intervention = (1 :> iv1) @@ (2 :> iv2)
  /\ total_setting = NoMaps
  /\ setting = NoMaps
  /\ step = [e \in Evals |-> 1]
  /\ status = [e \in Evals |-> "running"]
  /\ call = NoCall
  /\ vals = BuiltValues
  /\ vpos = Len(value_statements) + 1

NextClauses ==
  \/ \E e \in Evals : EvalNode(e)
  \/ \E e \in Evals : EvalRaise(e)

SpecClauses == InitClauses /\ [][NextClauses]_vars

----------------------------------------------------------------------------
(* The node functions called on every combination of their parents' values *)

InitFn ==
  /\ command = <<>>
  /\ padded_command = <<>>
  /\ index = 0
  /\ c = 0
  /\ pc = "fn"
  /\ causal_model_inputs = NoMaps
  /\ intervention = NoMaps
  /\ total_setting = NoMaps
  /\ setting = NoMaps
  /\ step = [e \in Evals |-> 0]
  /\ status = Idle
  /\ call = NoCall
  /\ vals = BuiltValues
  /\ vpos = Len(value_statements) + 1

Frame == UNCHANGED <<padVars, pc, evalVars, enumVars>>

CallResolveTurn ==
  /\ pc = "fn"
  /\ \E turn \in values("trn1") :
       call' = [fn |-> "resolve_turn", args |-> <<turn>>,
                ret |-> resolve_turn(turn)]
  /\ Frame

CallTurnFunction ==
  /\ pc = "fn"
  /\ \E turn \in values("trn1_res"), dir \in values("dir1") :
       call' = [fn |-> "turn_function", args |-> <<turn, dir>>,
                ret |-> turn_function(turn, dir)]
  /\ Frame

CallActionFunction ==
  /\ pc = "fn"
  /\ \E act \in values("act1"), trn_dir \in values("trn1_dir1") :
       call' = [fn |-> "action_function", args |-> <<act, trn_dir>>,
                ret |-> action_function(act, trn_dir)]
  /\ Frame

CallResolveNum ==
  /\ pc = "fn"
  /\ \E num \in values("num1") :
       call' = [fn |-> "resolve_num", args |-> <<num>>,
                ret |-> resolve_num(num)]
  /\ Frame

CallNumFunction ==
  /\ pc = "fn"
  /\ \E act_trn_dir \in values("act1_trn1_dir1") \cup values("trn1_dir1"),
        num \in values("num1_res") :
       call' = [fn |-> "num_function", args |-> <<act_trn_dir, num>>,
                ret |-> num_function(act_trn_dir, num)]
  /\ Frame

NextFn ==
  \/ CallResolveTurn
  \/ CallTurnFunction
  \/ CallActionFunction
  \/ CallResolveNum
  \/ CallNumFunction

SpecFn == InitFn /\ [][NextFn]_vars

----------------------------------------------------------------------------
(* The lexicon lookups called on words of any class and on foreign words *)

\* the words of the five classes and two words of none
SurfaceWords ==
  UNION {DOMAIN actions, DOMAIN turns, DOMAIN directions, DOMAIN nums,
         Elems(conjs)} \cup {<<"zzz">>, <<"Walk">>}

LookupResolveTurn ==
  /\ pc = "fn"
  /\ \E turn \in SurfaceWords :
       call' = [fn |-> "resolve_turn", args |-> <<turn>>,
                ret |-> resolve_turn(turn)]
  /\ Frame

LookupTurnFunction ==
  /\ pc = "fn"
  /\ \E turn \in values("trn1_res"), dir \in SurfaceWords :
       call' = [fn |-> "turn_function", args |-> <<turn, dir>>,
                ret |-> turn_function(turn, dir)]
  /\ Frame

LookupActionFunction ==
  /\ pc = "fn"
  /\ \E act \in SurfaceWords, trn_dir \in values("trn1_dir1") :
       call' = [fn |-> "action_function", args |-> <<act, trn_dir>>,
                ret |-> action_function(act, trn_dir)]
  /\ Frame

LookupResolveNum ==
  /\ pc = "fn"
  /\ \E num \in SurfaceWords :
       call' = [fn |-> "resolve_num", args |-> <<num>>,
                ret |-> resolve_num(num)]
  /\ Frame

NextLookup ==
  \/ LookupResolveTurn
  \/ LookupTurnFunction
  \/ LookupActionFunction
  \/ LookupResolveNum

SpecLookup == InitFn /\ [][NextLookup]_vars

----------------------------------------------------------------------------
(* The construction of the values table, one assignment per step *)

EnumStep ==
  /\ pc = "values"
  /\ vpos <= Len(value_statements)
  /\ LET v == value_statements[vpos] IN
       /\ values_reads(v) \subseteq DOMAIN vals
       /\ \E ord \in 1..NumOrders :
            vals' = vals @@ (v :> values_stmt(v, vals, ord))
  /\ vpos' = vpos + 1
  /\ UNCHANGED <<padVars, pc, evalVars, call>>

InitValues ==
  /\ command = <<>>
  /\ padded_command = <<>>
  /\ index = 0
  /\ c = 0
  /\ pc = "values"
  /\ causal_model_inputs = NoMaps
  /\ intervention = NoMaps
  /\ total_setting = NoMaps
  /\ setting = NoMaps
  /\ step = [e \in Evals |-> 0]
  /\ status = Idle
  /\ call = [fn |-> "none", args |-> <<>>, ret |-> <<>>]
  /\ vals = EmptyMap
  /\ vpos = 1

NextValues == EnumStep

SpecValues == InitValues /\ [][NextValues]_vars

EnumDone == pc = "values" /\ vpos = Len(value_statements) + 1

----------------------------------------------------------------------------
(* Claims *)

Nodes == Elems(variables)

ExampleAssignment ==
  Assignment(<<"run">>, <<"opposite">>, <<"left">>, EMPTY, <<"after">>,
             <<"walk">>, EMPTY, <<"right">>, EMPTY)

\* C1: once the forward evaluation of [run, opposite, left, EMPTY, after, walk,
\* EMPTY, right, EMPTY] without overrides has ended, it has returned a Setting
\* whose rnode is "I_TURN_LEFT I_TURN_LEFT I_RUN I_TURN_RIGHT I_WALK".
C1_RootValue ==
  \A e \in Evals :
    (/\ Finished(e)
     /\ causal_model_inputs[e] = ExampleAssignment
     /\ intervention[e] = EmptyMap)
    => /\ status[e] = "done"
       /\ "rnode" \in DOMAIN setting[e]
       /\ setting[e]["rnode"] =
            <<"I_TURN_LEFT", SP, "I_TURN_LEFT", SP, "I_RUN", SP,
              "I_TURN_RIGHT", SP, "I_WALK">>

ValidAssignment(L) ==
  /\ DOMAIN L = Elems(leaves)
  /\ \A i \in 1..max_len : L[leaves[i]] \in command_structure(i - 1)

\* C2: the forward evaluation of a valid leaf assignment without overrides
\* ends without error, in a Setting that gives a value to all 21 nodes.
C2_Totality ==
  \A e \in Evals :
    (/\ Finished(e)
     /\ ValidAssignment(causal_model_inputs[e])
     /\ intervention[e] = EmptyMap)
    => /\ status[e] = "done"
       /\ DOMAIN setting[e] = Nodes
       /\ Cardinality(Nodes) = 21

DiffersOnlyIn(L1, L2, S) ==
  /\ DOMAIN L1 = DOMAIN L2
  /\ \A v \in DOMAIN L1 : v \notin S => L1[v] = L2[v]

C3Nodes == {"trn1_dir1", "act1_trn1_dir1", "act1_trn1_dir1_num1"}

\* C3: under an override of trn1_dir1 the evaluated trn1_dir1 is the override
\* value, act1_trn1_dir1 is action_function of act1 and the override when it is
\* not itself overridden, and two evaluations under the same overrides whose
\* leaf assignments differ only in trn1 and dir1 give the same values to
\* trn1_dir1, act1_trn1_dir1 and act1_trn1_dir1_num1, in the values evaluated
\* so far and in the Setting returned.
C3_InterventionPropagation ==
  /\ \A e \in Evals :
       "trn1_dir1" \in DOMAIN intervention[e] =>
         /\ "trn1_dir1" \in DOMAIN total_setting[e] =>
              total_setting[e]["trn1_dir1"] = intervention[e]["trn1_dir1"]
         /\ status[e] = "done" =>
              setting[e]["trn1_dir1"] = intervention[e]["trn1_dir1"]
         /\ ("act1_trn1_dir1" \in DOMAIN total_setting[e]
             /\ "act1_trn1_dir1" \notin DOMAIN intervention[e]) =>
              total_setting[e]["act1_trn1_dir1"] =
                action_function(causal_model_inputs[e]["act1"],
                                intervention[e]["trn1_dir1"])
  /\ (/\ "trn1_dir1" \in DOMAIN intervention[1]
      /\ intervention[1] = intervention[2]
      /\ DiffersOnlyIn(causal_model_inputs[1], causal_model_inputs[2],
                       {"trn1", "dir1"}))
     => /\ \A v \in C3Nodes :
             v \in DOMAIN total_setting[1] \cap DOMAIN total_setting[2] =>
               total_setting[1][v] = total_setting[2][v]
        /\ (status[1] = "done" /\ status[2] = "done") =>
             \A v \in C3Nodes : setting[1][v] = setting[2][v]

\* two Settings returned under the override "I_TURN_RIGHT act" of trn1_dir1,
\* for "run around left twice" and "run <no turn> <no direction> twice"
C3_Witness ==
  /\ status[1] = "done"
  /\ status[2] = "done"
  /\ intervention[1] = intervention[2]
  /\ "trn1_dir1" \in DOMAIN intervention[1]
  /\ intervention[1]["trn1_dir1"] = <<"I_TURN_RIGHT", SP, "act">>
  /\ causal_model_inputs[1]["act1"] = <<"run">>
  /\ causal_model_inputs[1]["trn1"] = <<"around">>
  /\ causal_model_inputs[1]["dir1"] = <<"left">>
  /\ causal_model_inputs[1]["num1"] = <<"twice">>
  /\ causal_model_inputs[2]["trn1"] = EMPTY
  /\ causal_model_inputs[2]["dir1"] = EMPTY
  /\ setting[1]["trn1_res"] # setting[2]["trn1_res"]
  /\ setting[1]["act1_trn1_dir1"] = <<"I_TURN_RIGHT", SP, "I_RUN">>
  /\ setting[2]["act1_trn1_dir1_num1"] =
       <<"I_TURN_RIGHT", SP, "I_RUN", SP, "I_TURN_RIGHT", SP, "I_RUN">>

ParentSet(v) == Elems(parents(v))

RECURSIVE AncestorsWithin(_, _)
AncestorsWithin(v, k) ==
  IF k = 0 THEN {}
  ELSE ParentSet(v) \cup UNION {AncestorsWithin(p, k - 1) : p \in ParentSet(v)}

Ancestors(v) == AncestorsWithin(v, Cardinality(Nodes))

Sinks == {v \in Nodes : \A w \in Nodes : v \notin ParentSet(w)}

\* C5: the parent relation of the graph the program evaluates is acyclic,
\* rnode is its only sink, rnode has both clause results and the conjunction
\* among its ancestors, and every composite node has a leaf among its
\* ancestors.
C5_SingleRoot ==
  pc = "forward" =>
    /\ \A v \in Nodes : v \notin Ancestors(v)
    /\ Sinks = {"rnode"}
    /\ {"act1_trn1_dir1_num1", "act2_trn2_dir2_num2"} \subseteq Ancestors("rnode")
    /\ {"conj", "conj_res"} \cap Ancestors("rnode") # {}
    /\ \A v \in Elems(non_leaves) : Ancestors(v) \cap Elems(leaves) # {}

----------------------------------------------------------------------------
(* Claims about the node functions *)

NoBlankAtEnds(r) == r # <<>> /\ Head(r) # SP /\ r[Len(r)] # SP

\* C6: turn_function on a resolved turn of {EMPTY, "yyyy", "yy"} and a
\* direction word returns EMPTY for the direction EMPTY and otherwise, with D
\* the direction's primitive, "D act" for the turn EMPTY,
\* "D act D act D act D act" for "yyyy" and "D D act" for "yy"; the result has
\* no blank at either end.
C6_TurnFunction ==
  call.fn = "turn_function" =>
    LET turn == call.args[1]
        dir == call.args[2]
        D == directions[dir]
        r == call.ret
    IN /\ turn \in {EMPTY, <<"y", "y", "y", "y">>, <<"y", "y">>}
       /\ dir \in {<<"right">>, <<"left">>, EMPTY}
       /\ dir = EMPTY => r = EMPTY
       /\ (dir # EMPTY /\ turn = EMPTY) => r = D \o <<SP, "act">>
       /\ (dir # EMPTY /\ turn = <<"y", "y", "y", "y">>) =>
            r = D \o <<SP, "act", SP>> \o D \o <<SP, "act", SP>>
                  \o D \o <<SP, "act", SP>> \o D \o <<SP, "act">>
       /\ (dir # EMPTY /\ turn = <<"y", "y">>) =>
            r = D \o <<SP>> \o D \o <<SP, "act">>
       /\ NoBlankAtEnds(r)

\* turn_function("yy", "right") has returned "I_TURN_RIGHT I_TURN_RIGHT act"
C6_Witness ==
  /\ call.fn = "turn_function"
  /\ call.args = << <<"y", "y">>, <<"right">> >>
  /\ call.ret = <<"I_TURN_RIGHT", SP, "I_TURN_RIGHT", SP, "act">>

\* C7: action_function on an action word and a value of trn1_dir1 returns the
\* action's primitive when the template is EMPTY and otherwise the template
\* with every act replaced by the primitive; no act is left in the result.
C7_ActionFunction ==
  call.fn = "action_function" =>
    LET act == call.args[1]
        trn_dir == call.args[2]
        prim == actions[act]
        r == call.ret
    IN /\ Len(prim) = 1
       /\ trn_dir = EMPTY => r = prim
       /\ trn_dir # EMPTY =>
            /\ Len(r) = Len(trn_dir)
            /\ \A i \in 1..Len(r) :
                 r[i] = IF trn_dir[i] = "act" THEN prim[1] ELSE trn_dir[i]
       /\ \A i \in 1..Len(r) : r[i] # "act"

\* action_function("walk", "I_TURN_LEFT act" four times) has replaced all
\* four placeholders
C7_Witness ==
  /\ call.fn = "action_function"
  /\ call.args[1] = <<"walk">>
  /\ Cardinality({i \in 1..Len(call.args[2]) : call.args[2][i] = "act"}) = 4
  /\ call.ret = <<"I_TURN_LEFT", SP, "I_WALK", SP, "I_TURN_LEFT", SP, "I_WALK",
                  SP, "I_TURN_LEFT", SP, "I_WALK", SP, "I_TURN_LEFT", SP,
                  "I_WALK">>

\* C8: num_function on a value s of act1_trn1_dir1 (or a template of
\* trn1_dir1) and a resolved number returns s for EMPTY, "s s" for "xx" and
\* "s s s" for "xxx", the copies joined by one blank and none at the end.
C8_NumFunction ==
  call.fn = "num_function" =>
    LET s == call.args[1]
        num == call.args[2]
        r == call.ret
    IN /\ num \in {EMPTY, <<"x", "x">>, <<"x", "x", "x">>}
       /\ num = EMPTY => r = s
       /\ num = <<"x", "x">> => r = s \o <<SP>> \o s
       /\ num = <<"x", "x", "x">> => r = s \o <<SP>> \o s \o <<SP>> \o s

\* num_function("I_TURN_RIGHT act", "xx") has returned
\* "I_TURN_RIGHT act I_TURN_RIGHT act"
C8_Witness ==
  /\ call.fn = "num_function"
  /\ call.args = << <<"I_TURN_RIGHT", SP, "act">>, <<"x", "x">> >>
  /\ call.ret = <<"I_TURN_RIGHT", SP, "act", SP, "I_TURN_RIGHT", SP, "act">>

\* C16: a lookup of a word outside the vocabulary of its class raises and
\* returns nothing: resolve_turn outside turns, resolve_num outside nums,
\* turn_function for a direction outside directions, action_function for an
\* action outside actions.
C16_LookupRaises ==
  /\ (call.fn = "resolve_turn" /\ call.args[1] \notin DOMAIN turns) =>
       call.ret = Raised
  /\ (call.fn = "resolve_num" /\ call.args[1] \notin DOMAIN nums) =>
       call.ret = Raised
  /\ (call.fn = "turn_function" /\ call.args[2] \notin DOMAIN directions) =>
       call.ret = Raised
  /\ (call.fn = "action_function" /\ call.args[1] \notin DOMAIN actions) =>
       call.ret = Raised

C16_Witness ==
  /\ call.fn = "resolve_turn"
  /\ call.args = << <<"left">> >>
  /\ <<"left">> \notin DOMAIN turns
  /\ call.ret = Raised

----------------------------------------------------------------------------
(* Claims about the padder *)

\* C9: the padder never raises and never stops before position nine, fills
\* one slot per position examined, and ends after exactly nine positions with
\* exactly 9 slots; every slot is EMPTY or a word of the input that is in its
\* position's vocabulary, whatever the length and the words of the input.
C9_PadderTotal ==
  /\ index \in 0..max_len
  /\ Len(padded_command) = index
  /\ (pc = "pad" /\ index < max_len) => ENABLED PadStep
  /\ pc = "forward" => (index = max_len /\ Len(padded_command) = 9)
  /\ \A i \in 1..Len(padded_command) :
       \/ padded_command[i] = EMPTY
       \/ /\ padded_command[i] \in Elems(command)
          /\ padded_command[i] \in command_structure(i - 1)

\* the padder has ended on an input of more than nine words, some of them
\* consumed and the last ones dropped
C9_Witness ==
  /\ pc = "forward"
  /\ Len(command) > max_len
  /\ c > 0
  /\ c < Len(command)
  /\ Len(padded_command) = 9
  /\ \E i \in 1..9 : padded_command[i] # EMPTY

\* the slots that are not EMPTY, from left to right
NonEmptySlots(p) == SelectSeq(p, LAMBDA w : w # EMPTY)

\* C10 as stated: c is at most the position index and the input length, and
\* the slots that are not EMPTY, from left to right, are a prefix of the input.
C10_NonEmptyPrefix ==
  /\ c <= index
  /\ c <= Len(command)
  /\ \E k \in 0..Len(command) :
       NonEmptySlots(padded_command) = SubSeq(command, 1, k)

\* C10 amended: c never decreases and grows by at most one per position; a
\* step at position i either consumes the next unconsumed word, which is in
\* the vocabulary of i, into slot i, or leaves c alone and fills slot i with
\* EMPTY, the next word (if any) not being in the vocabulary of i; c never
\* exceeds the position index or the input length; and the slots that are
\* not EMPTY, from left to right, are the consumed prefix of the input
\* without its words equal to EMPTY.
C10_Inv ==
  /\ c <= index
  /\ c <= Len(command)
  /\ NonEmptySlots(padded_command) = NonEmptySlots(SubSeq(command, 1, c))

C10_Step ==
  (index' # index) =>
    /\ index' = index + 1
    /\ c' \in {c, c + 1}
    /\ SubSeq(padded_command', 1, index) = padded_command
    /\ c' = c + 1 =>
         /\ padded_command'[index + 1] = command[c + 1]
         /\ command[c + 1] \in command_structure(index)
    /\ c' = c =>
         /\ padded_command'[index + 1] = EMPTY
         /\ c < Len(command) => command[c + 1] \notin command_structure(index)

C10_GreedyInOrder == [](C10_Inv) /\ [][C10_Step /\ c' >= c]_vars

\* the padder has ended having consumed the sentinel word and then a later
\* word, after retrying that word at positions whose slots stayed EMPTY
C10_Witness ==
  /\ pc = "forward"
  /\ c = 2
  /\ command[1] = EMPTY
  /\ command[2] = <<"walk">>
  /\ padded_command[6] = <<"walk">>
  /\ \A i \in 1..5 : padded_command[i] = EMPTY

\* the words of cmd from the k-th on can be given strictly increasing
\* positions from p on (1-based), each word in its position's vocabulary
RECURSIVE CanFit(_, _, _)
CanFit(cmd, k, p) ==
  IF k > Len(cmd) THEN TRUE
  ELSE \E q \in p..max_len :
         /\ cmd[k] \in command_structure(q - 1)
         /\ CanFit(cmd, k + 1, q + 1)

Fits(cmd) == CanFit(cmd, 1, 1)

PositionsAfter(cmd, k, prev) ==
  {q \in (prev + 1)..max_len : cmd[k] \in command_structure(q - 1)}

Least(S) == CHOOSE q \in S : \A r \in S : q <= r

\* the position of the k-th word when every word goes to the earliest
\* position after the previous word's whose vocabulary contains it (0 if none)
RECURSIVE EarliestPos(_, _)
EarliestPos(cmd, k) ==
  IF k = 0 THEN 0
  ELSE LET prev == EarliestPos(cmd, k - 1)
           S == PositionsAfter(cmd, k, prev)
       IN IF k > 1 /\ prev = 0 THEN 0
          ELSE IF S = {} THEN 0 ELSE Least(S)

EarliestPlacement(cmd) ==
  [i \in 1..max_len |->
     IF \E k \in 1..Len(cmd) : EarliestPos(cmd, k) = i
       THEN cmd[CHOOSE k \in 1..Len(cmd) : EarliestPos(cmd, k) = i]
       ELSE EMPTY]

\* C11: when the words of the command can be given strictly increasing
\* positions with each word in its position's vocabulary, the padder ends
\* having consumed every word, each word in the earliest position after the
\* previous word's whose vocabulary contains it, and EMPTY everywhere else
\* (stated of the state in which the loop has just ended).
C11_FittingCommandConsumed ==
  (pc = "forward" /\ step[1] = 1 /\ Fits(command)) =>
    /\ c = Len(command)
    /\ \A k \in 1..Len(command) : EarliestPos(command, k) # 0
    /\ padded_command = EarliestPlacement(command)

\* "run opposite left after walk right" has been padded to
\* [run, opposite, left, EMPTY, after, walk, EMPTY, right, EMPTY]
C11_Witness ==
  /\ pc = "forward"
  /\ step[1] = 1
  /\ command = << <<"run">>, <<"opposite">>, <<"left">>, <<"after">>,
                  <<"walk">>, <<"right">> >>
  /\ Fits(command)
  /\ c = 6
  /\ padded_command = << <<"run">>, <<"opposite">>, <<"left">>, EMPTY,
                         <<"after">>, <<"walk">>, EMPTY, <<"right">>, EMPTY >>

\* the leaves evaluation e has neither an input nor an override for
MissingLeaves(e) ==
  {l \in Elems(leaves) :
     l \notin DOMAIN causal_model_inputs[e] /\ l \notin DOMAIN intervention[e]}

PositionOf(v) == CHOOSE i \in 1..Len(variables) : variables[i] = v

\* C17: an evaluation whose leaf assignment leaves out a leaf never returns a
\* Setting, complete or partial: it does not get past the missing leaf and
\* its only end is the error, with nothing returned.
C17_MissingLeafFails ==
  \A e \in Evals :
    MissingLeaves(e) # {} =>
      /\ status[e] # "done"
      /\ setting[e] = EmptyMap
      /\ status[e] = "running" =>
           \A l \in MissingLeaves(e) : step[e] <= PositionOf(l)
      /\ status[e] = "error" => total_setting[e] = EmptyMap

C17_Witness ==
  /\ pc = "lib"
  /\ MissingLeaves(1) = {"num2"}
  /\ intervention[1] = RootOverride
  /\ status[1] = "error"
  /\ step[1] = PositionOf("num2")
  /\ setting[1] = EmptyMap

\* the five vocabularies: action, turn, direction, number, conjunction
Classes ==
  << DOMAIN actions, DOMAIN turns, DOMAIN directions, DOMAIN nums,
     Elems(conjs) >>

\* the class of each of the nine positions
PositionClass == <<1, 2, 3, 4, 5, 1, 2, 3, 4>>

\* C18: each of the five vocabularies holds EMPTY, two of them share no other
\* word, and the padder tests position index against the vocabulary of its
\* class in the order action, turn, direction, number, conjunction, action,
\* turn, direction, number: every other word it has placed is a word of the
\* class of its position and of no other class.
C18_Vocabularies ==
  pc = "pad" =>
    /\ \A i \in 1..5 : EMPTY \in Classes[i]
    /\ \A i, j \in 1..5 : i # j => Classes[i] \cap Classes[j] = {EMPTY}
    /\ Len(PositionClass) = max_len
    /\ index < max_len =>
         command_structure(index) = Classes[PositionClass[index + 1]]
    /\ \A i \in 1..Len(padded_command) :
         padded_command[i] # EMPTY =>
           {k \in 1..5 : padded_command[i] \in Classes[k]} = {PositionClass[i]}

C18_Witness ==
  /\ pc = "pad"
  /\ index = max_len
  /\ \A i \in 1..max_len :
       /\ padded_command[i] # EMPTY
       /\ padded_command[i] \in Classes[PositionClass[i]]

----------------------------------------------------------------------------
(* Claims about the values table *)

\* the domain of node v recomputed from the leaf entries of the table vs
\* through functions and parents
RECURSIVE Recomputed(_, _)
Recomputed(vs, v) ==
  IF IsLeaf(v) THEN Elems(vs[v])
  ELSE LET ps == parents(v) IN
    IF Len(ps) = 1
      THEN {Apply(functions(v), <<a>>) : a \in Recomputed(vs, ps[1])}
      ELSE {Apply(functions(v), <<a, b>>) :
              a \in Recomputed(vs, ps[1]), b \in Recomputed(vs, ps[2])}

\* C12: once the table is built, the entries of act1_trn1_dir1_num1 and of
\* act2_trn2_dir2_num2 are the same set, and each is the set recomputed from
\* the leaf entries of its own clause through the functions of its own clause.
C12_Symmetry ==
  EnumDone =>
    /\ Elems(vals["act1_trn1_dir1_num1"]) = Elems(vals["act2_trn2_dir2_num2"])
    /\ Elems(vals["act1_trn1_dir1_num1"]) =
         Recomputed(vals, "act1_trn1_dir1_num1")
    /\ Elems(vals["act2_trn2_dir2_num2"]) =
         Recomputed(vals, "act2_trn2_dir2_num2")

C12_Witness ==
  /\ EnumDone
  /\ <<"I_TURN_LEFT", SP, "I_WALK", SP, "I_TURN_LEFT", SP, "I_WALK">>
       \in Elems(vals["act2_trn2_dir2_num2"])
  /\ Cardinality(Elems(vals["act1_trn1_dir1_num1"])) > 50
  /\ vals["act1_trn1_dir1_num1"][1] # BuiltValues["act1_trn1_dir1_num1"][1]

\* the value forward evaluation without overrides gives node v on the leaf
\* assignment inputs: the node's function on the values of its parents
RECURSIVE NodeValue(_, _)
NodeValue(inputs, v) ==
  IF IsLeaf(v) THEN inputs[v]
  ELSE Apply(functions(v),
             [i \in 1..Len(parents(v)) |-> NodeValue(inputs, parents(v)[i])])

\* the running evaluations without overrides hold NodeValue at every node
\* they have evaluated
ForwardAgrees ==
  \A e \in Evals :
    (status[e] = "running" /\ intervention[e] = EmptyMap) =>
      \A v \in DOMAIN total_setting[e] :
        total_setting[e][v] = NodeValue(causal_model_inputs[e], v)

\* the composite nodes that have an entry in values
Enumerated == {v \in Elems(non_leaves) : v \in Elems(value_statements)}

LeafAncestors(v) == Ancestors(v) \cap Elems(leaves)

\* the words leaf number i (1-based, in the order of leaves) ranges over when
\* the leaf ancestors of v vary and every other leaf is EMPTY
LeafRange(v, i) ==
  IF leaves[i] \in LeafAncestors(v) THEN command_structure(i - 1) ELSE {EMPTY}

\* the valid leaf assignments that vary the leaf ancestors of v
AssignmentsFor(v) ==
  {Assignment(a1, t1, d1, n1, cj, a2, t2, d2, n2) :
     a1 \in LeafRange(v, 1), t1 \in LeafRange(v, 2), d1 \in LeafRange(v, 3),
     n1 \in LeafRange(v, 4), cj \in LeafRange(v, 5), a2 \in LeafRange(v, 6),
     t2 \in LeafRange(v, 7), d2 \in LeafRange(v, 8), n2 \in LeafRange(v, 9)}

\* C13: once the table is built, the entry of every composite node that has
\* one lists, without repetition, exactly the values the node takes in the
\* forward evaluations of the valid leaf assignments.
C13_DomainIsReachable ==
  EnumDone =>
    \A v \in Enumerated :
      /\ v \in DOMAIN vals
      /\ Elems(vals[v]) = {NodeValue(L, v) : L \in AssignmentsFor(v)}
      /\ Len(vals[v]) = Cardinality(Elems(vals[v]))

C13_Witness ==
  /\ EnumDone
  /\ Enumerated \subseteq DOMAIN vals
  /\ \A L \in AssignmentsFor("act2_trn2_dir2_num2") : ValidAssignment(L)
  /\ Cardinality(AssignmentsFor("act2_trn2_dir2_num2")) = 162
  /\ \E L \in AssignmentsFor("act1_trn1_dir1") :
       /\ L["act1"] = <<"jump">> /\ L["dir1"] = <<"left">>
       /\ L["trn1"] = EMPTY
       /\ NodeValue(L, "act1_trn1_dir1") = <<"I_TURN_LEFT", SP, "I_JUMP">>
       /\ NodeValue(L, "act1_trn1_dir1") \in Elems(vals["act1_trn1_dir1"])
  /\ Len(vals["act1_trn1_dir1"]) > 10

\* at every assignment to values[v] the entries of the parents of v and the
\* entries the assignment reads are in the table
ParentsFirst ==
  (pc = "values" /\ vpos <= Len(value_statements)) =>
    LET v == value_statements[vpos] IN
      /\ ParentSet(v) \subseteq DOMAIN vals
      /\ values_reads(v) \subseteq DOMAIN vals

\* C14: the construction of the table gives an entry to every one of the 12
\* composite nodes, and gives a node its entry only after the entries of all
\* its parents.
C14_AllInTopologicalOrder ==
  /\ ParentsFirst
  /\ EnumDone => Elems(non_leaves) \subseteq DOMAIN vals

----------------------------------------------------------------------------
(* Claims about the evaluated program *)

\* the values of actions and directions other than EMPTY
Primitives ==
  {actions[w][1] : w \in {x \in DOMAIN actions : actions[x] # EMPTY}} \cup
  {directions[w][1] : w \in {x \in DOMAIN directions : directions[x] # EMPTY}}

\* r is primitive tokens joined by single blanks
SpaceJoined(r) ==
  /\ Len(r) % 2 = 1
  /\ \A i \in 1..Len(r) : IF i % 2 = 1 THEN r[i] \in Primitives ELSE r[i] = SP

\* C15: when the padded command has a first action word, the value the
\* evaluation gives act1_trn1_dir1_num1 is primitive action tokens joined by
\* blanks: no EMPTY, no act placeholder, no repetition marker.
C15_OnlyPrimitives ==
  (/\ pc = "forward"
   /\ "act1_trn1_dir1_num1" \in DOMAIN total_setting[1]
   /\ causal_model_inputs[1]["act1"] # EMPTY) =>
     SpaceJoined(total_setting[1]["act1_trn1_dir1_num1"])

\* the same for the commands whose first action word is not turn
C15_ExceptTurn ==
  (/\ pc = "forward"
   /\ "act1_trn1_dir1_num1" \in DOMAIN total_setting[1]
   /\ causal_model_inputs[1]["act1"] \notin {EMPTY, <<"turn">>}) =>
     SpaceJoined(total_setting[1]["act1_trn1_dir1_num1"])

\* the outcome and the Setting of a forward evaluation run on its own, from
\* node number k of variables on
RECURSIVE RunFrom(_, _, _, _)
RunFrom(inputs, iv, ts, k) ==
  IF k > Len(variables) THEN <<"done", ts>>
  ELSE LET val == OutcomeOf(inputs, iv, ts, variables[k]) IN
    IF val = Raised THEN <<"error", EmptyMap>>
    ELSE RunFrom(inputs, iv, ts @@ (variables[k] :> val), k + 1)

RunAlone(inputs, iv) == RunFrom(inputs, iv, EmptyMap, 1)

C19_OwnSetting ==
  \A e \in Evals :
    Finished(e) =>
      <<status[e], setting[e]>> =
        RunAlone(causal_model_inputs[e], intervention[e])

C19_Frame ==
  /\ vals' = vals
  /\ \A e \in Evals :
       status[e] # "idle" =>
         /\ causal_model_inputs'[e] = causal_model_inputs[e]
         /\ intervention'[e] = intervention[e]

TwoParentNodes == {v \in Nodes : Len(parents(v)) = 2}

\* the node function of a two-parent node called on (a, b) by its name
NamedCall(v, a, b) ==
  CASE v \in {"trn1_dir1", "trn2_dir2"} -> turn_function(a, b)
    [] v \in {"act1_trn1_dir1", "act2_trn2_dir2"} -> action_function(a, b)
    [] v \in {"act1_trn1_dir1_num1", "act2_trn2_dir2_num2"} -> num_function(a, b)

\* C20: the parents of a two-parent node are listed in the order of the
\* parameters of its function -- (trnK_res, dirK) for turn_function(turn, dir),
\* (actK, trnK_dirK) for action_function(act, trn_dir), (actK_trnK_dirK,
\* numK_res) for num_function(act_trn_dir, num) -- and the node's entry in the
\* built table is the function on (first parent's entry, second parent's
\* entry), which is also the value the evaluation gives the node.
C20_ParentOrder ==
  EnumDone =>
    /\ TwoParentNodes =
         {"trn1_dir1", "trn2_dir2", "act1_trn1_dir1", "act2_trn2_dir2",
          "act1_trn1_dir1_num1", "act2_trn2_dir2_num2"}
    /\ parents("trn1_dir1") = <<"trn1_res", "dir1">>
    /\ parents("trn2_dir2") = <<"trn2_res", "dir2">>
    /\ parents("act1_trn1_dir1") = <<"act1", "trn1_dir1">>
    /\ parents("act2_trn2_dir2") = <<"act2", "trn2_dir2">>
    /\ parents("act1_trn1_dir1_num1") = <<"act1_trn1_dir1", "num1_res">>
    /\ parents("act2_trn2_dir2_num2") = <<"act2_trn2_dir2", "num2_res">>
    /\ \A v \in TwoParentNodes :
         LET p1 == parents(v)[1]
             p2 == parents(v)[2]
         IN /\ Elems(vals[v]) =
                 {NamedCall(v, a, b) : a \in Elems(vals[p1]), b \in Elems(vals[p2])}
            /\ \A a \in Elems(vals[p1]), b \in Elems(vals[p2]) :
                 /\ NamedCall(v, a, b) # Raised
                 /\ OutcomeOf(EmptyMap, EmptyMap, (p1 :> a) @@ (p2 :> b), v) =
                      NamedCall(v, a, b)

C20_Witness ==
  /\ EnumDone
  /\ <<"I_TURN_RIGHT", SP, "I_TURN_RIGHT", SP, "act">> \in Elems(vals["trn1_dir1"])
  /\ turn_function(<<"y", "y">>, <<"right">>) =
       <<"I_TURN_RIGHT", SP, "I_TURN_RIGHT", SP, "act">>
  /\ <<"y", "y">> \in Elems(vals[parents("trn1_dir1")[1]])
  /\ <<"right">> \in Elems(vals[parents("trn1_dir1")[2]])

----------------------------------------------------------------------------
(* Claims about the two clauses *)

\* the nodes of each clause, leaves first, the two lists in the same order
LeftNodes ==
  << "act1", "trn1", "dir1", "num1", "trn1_res", "trn1_dir1",
     "act1_trn1_dir1", "num1_res", "act1_trn1_dir1_num1" >>

RightNodes ==
  << "act2", "trn2", "dir2", "num2", "trn2_res", "trn2_dir2",
     "act2_trn2_dir2", "num2_res", "act2_trn2_dir2_num2" >>

\* evaluations 1 and 2 have the same leaf values and the same overrides on
\* the nodes of clause
SameOn(clause) ==
  \A i \in 1..Len(clause) :
    LET v == clause[i] IN
      /\ IsLeaf(v) => causal_model_inputs[1][v] = causal_model_inputs[2][v]
      /\ (v \in DOMAIN intervention[1]) = (v \in DOMAIN intervention[2])
      /\ v \in DOMAIN intervention[1] => intervention[1][v] = intervention[2][v]

\* evaluations 1 and 2 hold the same value at every node of clause both have
\* evaluated
AgreeOn(clause) ==
  \A i \in 1..Len(clause) :
    (clause[i] \in DOMAIN total_setting[1] \cap DOMAIN total_setting[2]) =>
      total_setting[1][clause[i]] = total_setting[2][clause[i]]

\* evaluation e has the same four leaf values in both clauses and overrides
\* no clause node
Mirrored(e) ==
  /\ \A i \in 1..4 :
       causal_model_inputs[e][LeftNodes[i]] = causal_model_inputs[e][RightNodes[i]]
  /\ \A i \in 1..Len(LeftNodes) :
       /\ LeftNodes[i] \notin DOMAIN intervention[e]
       /\ RightNodes[i] \notin DOMAIN intervention[e]

\* C21: two evaluations that agree on the leaves and overrides of the right
\* clause hold the same values at the right-clause nodes, whatever the leaves
\* and overrides of the left clause are, and the same with left and right
\* exchanged; an evaluation with the same four leaf values in both clauses
\* holds at each right-clause node the value of its left-clause counterpart.
C21_ClausesIndependent ==
  /\ SameOn(RightNodes) => AgreeOn(RightNodes)
  /\ SameOn(LeftNodes) => AgreeOn(LeftNodes)
  /\ \A e \in Evals :
       Mirrored(e) =>
         \A i \in 1..Len(LeftNodes) :
           RightNodes[i] \in DOMAIN total_setting[e] =>
             /\ LeftNodes[i] \in DOMAIN total_setting[e]
             /\ total_setting[e][RightNodes[i]] = total_setting[e][LeftNodes[i]]

C21_Witness ==
  /\ pc = "lib"
  /\ SameOn(RightNodes)
  /\ causal_model_inputs[1]["act1"] # causal_model_inputs[2]["act1"]
  /\ intervention[1] = EmptyMap
  /\ "trn1_dir1" \in DOMAIN intervention[2]
  /\ Mirrored(1)
  /\ \A e \in Evals :
       /\ status[e] = "running"
       /\ "act2_trn2_dir2_num2" \in DOMAIN total_setting[e]
  /\ total_setting[1]["act1_trn1_dir1_num1"] #
       total_setting[2]["act1_trn1_dir1_num1"]
  /\ total_setting[1]["act2_trn2_dir2_num2"] =
       total_setting[2]["act2_trn2_dir2_num2"]
  /\ total_setting[1]["act2_trn2_dir2_num2"] =
       total_setting[1]["act1_trn1_dir1_num1"]
  /\ Len(total_setting[1]["act2_trn2_dir2_num2"]) > 3

====
